---- MODULE Spec2Model ----
(***************************************************************************)
(* Access-quota ledger (auth_manager.py, class AuthManager) and the        *)
(* single-flight pipeline orchestrator (streamlit_app.py, process_video    *)
(* and its three entry points).                                            *)
(*                                                                         *)
(* Granularity.  Every AuthManager method opens its own sqlite3            *)
(* connection.  Python's sqlite3 module runs a SELECT in autocommit mode   *)
(* and opens a transaction only in front of INSERT/UPDATE/DELETE, so the   *)
(* two SELECTs of validate_user are two separate reads of the committed    *)
(* tables, and the INSERT .. UPDATE .. commit that follows is one write    *)
(* transaction (sqlite admits one writer at a time).  Each of these is     *)
(* one step of a client.  In the orchestrator the only suspension points   *)
(* are the awaits on the pipeline, so the code from a button click up to   *)
(* the await is one step and the code after the await (the except and      *)
(* finally blocks included) is another.                                    *)
(*                                                                         *)
(* Ten specifications share the variables:                                 *)
(*   Spec       the ledger used by concurrent clients (sessions);          *)
(*   SpecRace   two validate_user calls for one new username and one       *)
(*              unused single-use code, nothing else running;              *)
(*   SpecOrch   one browser session: login, admin controls, the three      *)
(*              processing buttons and the pipeline runs they start;       *)
(*   SpecShared that session on a store on which increment_usage is        *)
(*              called for its username;                                   *)
(*   SpecIssue  two admin sessions issuing (create_code,                   *)
(*              create_bulk_codes) and deleting codes at once;             *)
(*   SpecGenerate  those sessions with every pass of the loop of           *)
(*              generate_unique_code as a step, and fairness;              *)
(*   SpecUnlimited the ledger of Spec with codes of max_videos -1;         *)
(*   SpecAtomic SpecRace with a write transaction that can fail after its  *)
(*              INSERT;                                                    *)
(*   SpecSweep  a session in a working directory with temp_* and output_*  *)
(*              entries, for cleanup_memory;                               *)
(*   SpecDownload  calls of download_from_url (Step_1_download_video.py)   *)
(*              while the wall clock runs.                                 *)
(***************************************************************************)
EXTENDS Integers, FiniteSets, Sequences, TLC

\* ------------------------------------------------------------------ bounds
MaxVideos == 2      \* largest max_videos given to an issued code
MaxUsed == 2        \* cap on videos_used (increment_usage itself has none)
MaxIssues == 1      \* create_code calls in one behaviour
TickSeconds == 100  \* seconds that pass in one step of the clock
MaxAge == 400       \* the clock stops once the start time is this old
MaxCalls == 2       \* issue calls started in one behaviour of SpecIssue
MaxBulk == 2        \* largest num_codes given to create_bulk_codes
MaxDirAge == 3700   \* the age of a directory entry is followed up to this
ClockStep == 30     \* seconds between two readings of the wall clock
MaxClock == 120     \* the wall clock is followed up to this second
MaxDownloads == 3   \* download_from_url calls in one behaviour

\* --------------------------------------------------------- program constants
ADMIN_USERNAME == "Mani"
ADMIN_CODE == "ADMIN_MASTER"
STALE_SECONDS == 300
SWEEP_SECONDS == 3600

\* The code strings generate_unique_code can draw, the usernames callers
\* type in, the concurrent callers of validate_user and the pipeline runs
\* one session can have in flight.
IssuableCodes == {"MK_A"}
CodeNames == {ADMIN_CODE} \cup IssuableCodes

\* The strings the random generator can produce for the prefix; Spec and
\* SpecOrch follow the draws in IssuableCodes, SpecIssue all of them.
RandomCodes == {"MK_A", "MK_B"}

\* create_bulk_codes is called when "Number of Codes" is not 1.
NumCodesValues == 2..MaxBulk
LoginNames == {"alice", "bob"}
Usernames == {ADMIN_USERNAME} \cup LoginNames
Clients == {1, 2}
Runs == {1, 2}

\* The usernames typed into the login form of the session SpecOrch follows.
SessionNames == {ADMIN_USERNAME, "alice"}

\* The username typed into the login form of each concurrent session.
ClientUser == (1 :> "alice") @@ (2 :> "bob")

\* "Max Videos" is a number input with min_value=1.
MaxVideosValues == 1..MaxVideos

\* What a caller of create_code can pass as max_videos: the form's values and
\* the negative number init_db stores for "no limit".
LedgerMaxVideosValues == {-1} \cup MaxVideosValues

ExampleUrl == "file://example_videos/1.mp4"
\* What is typed into "Enter video URL": <<scheme, rest>>.
UrlInputs == {<<"https://", "example.com/video.mp4">>, <<"", "example.com/video.mp4">>}

\* Entries of the working directory: <<prefix, rest>> of the name.  The first
\* two match the patterns 'temp_*' and 'output_*' of cleanup_memory.
DirNames == {<<"temp_", "a1">>, <<"output_", "a1">>, <<"cache_", "a1">>}

\* The ages (now - st_mtime, in seconds) an entry is first seen with.
DirAges == {SWEEP_SECONDS, SWEEP_SECONDS + 1}

VARIABLES
    codes,      \* table codes: code -> [max_videos, is_admin, is_used]
    users,      \* table users: username -> [code, videos_used]
    consumed,   \* history: increment_usage calls that updated the user's row
    issued,     \* history: number of codes issued so far
    first_code, \* history: the first code each username was bound to ("": none)
    vpc,        \* per client: position inside validate_user
    vuser,      \* per client: argument username
    vcode,      \* per client: argument code
    vinfo,      \* per client: code_info fetched by the first SELECT
    vdirty,     \* per client: a bind, issue or delete committed during the call
    download,   \* the acquire step: clock, files of video_dir, call in progress
    outcome,    \* SpecRace: the tuple each of the two calls returned
    ret,        \* what the step just taken returned or displayed
    authenticated,          \* st.session_state.authenticated
    username,               \* st.session_state.username
    session_is_admin,       \* st.session_state.is_admin
    remaining_videos,       \* st.session_state.remaining_videos
    is_processing,          \* st.session_state.is_processing
    processing_start_time,  \* << >>: attribute absent; <<a>>: set a seconds ago
    video_url,              \* st.session_state.video_url ("" when never set)
    uploaded_file,          \* the file_uploader widget holds a file
    rpc,        \* per run: "idle" or "pipeline" (suspended in the await)
    rsrc,       \* per run: what the pipeline was invoked on
    tmp,        \* per run: the NamedTemporaryFile it wrote still exists
    owner,      \* history: the run admitted last and not yet over (0: none)
    disk        \* working directory: name -> [dir, age] of the entries present

ledgerVars == <<codes, users, consumed, issued, first_code>>
clientVars == <<vpc, vuser, vcode, vinfo, vdirty>>
sessionVars == <<authenticated, username, session_is_admin, remaining_videos>>
orchVars == <<is_processing, processing_start_time, video_url, uploaded_file, rpc, rsrc, tmp,
              owner, disk>>
vars == <<ledgerVars, clientVars, outcome, download, ret, sessionVars, orchVars>>

NoInfo == [max_videos |-> 0, is_admin |-> FALSE, is_used |-> FALSE]
NoResult == [ok |-> FALSE, msg |-> "", remaining |-> 0]
NoTime == << >>

Result(ok, msg, remaining) == [ok |-> ok, msg |-> msg, remaining |-> remaining]

\* The observable outcome of a step.
NoRet == [op |-> "", id |-> 0, who |-> "", what |-> "", ok |-> FALSE, msg |-> "",
          n |-> 0, clean |-> TRUE, codes |-> << >>]
Ret(op, id, who, what, ok, msg, n, clean) ==
    [op |-> op, id |-> id, who |-> who, what |-> what, ok |-> ok, msg |-> msg,
     n |-> n, clean |-> clean, codes |-> << >>]
\* An issue call returns the list of codes it created; n is the number asked
\* for and what the code whose INSERT failed.
IssueRet(op, v, created, n, failed) ==
    [Ret(op, v, "", failed, created # << >>, "", n, TRUE) EXCEPT !.codes = created]
ValidateRet(v, u, c, res, clean) ==
    Ret("validate_user", v, u, c, res.ok, res.msg, res.remaining, clean)

\* Removal of the rows whose key is in ks.
Without(f, ks) == [k \in DOMAIN f \ ks |-> f[k]]

EmptyTable == [k \in {} |-> NoInfo]

\* ------------------------------------------------------------------ init_db
\* Mutant: the tables dropped and created again in front of the seeding.
init_db_codes_recreated(cs) ==
    ADMIN_CODE :> [max_videos |-> -1, is_admin |-> TRUE, is_used |-> FALSE]

\* CREATE TABLE IF NOT EXISTS, then INSERT OR IGNORE of the default admin code
\* and the default admin user.
init_db_codes(cs) ==
    IF ADMIN_CODE \in DOMAIN cs THEN cs
    ELSE cs @@ (ADMIN_CODE :> [max_videos |-> -1, is_admin |-> TRUE, is_used |-> FALSE])

init_db_users(us) ==
    IF ADMIN_USERNAME \in DOMAIN us THEN us
    ELSE us @@ (ADMIN_USERNAME :> [code |-> ADMIN_CODE, videos_used |-> 0])

\* ------------------------------------------------------------ validate_user
\* Mutant: the allowance of the code, whatever has been used.
RemainingOfCode(max_videos, videos_used) ==
    IF max_videos > 0 THEN max_videos ELSE -1

\* The value returned for an accepted user: max_videos - videos_used, or -1.
Remaining(max_videos, videos_used) ==
    IF max_videos > 0 THEN max_videos - videos_used ELSE -1

\* Mutant: the limit applied to admin codes as well.
LimitReachedAdminToo(info, row) == row.videos_used >= info.max_videos

\* Mutant: the comparison off by one.
LimitReachedStrict(info, row) == ~info.is_admin /\ row.videos_used > info.max_videos

\* "if not is_admin and videos_used >= max_videos"
LimitReached(info, row) == ~info.is_admin /\ row.videos_used >= info.max_videos

\* The branch taken once the users row of a bound username has been fetched.
BoundUserResult(info, row, code) ==
    IF row.code # code
    THEN Result(FALSE, "Username already registered with a different code", 0)
    ELSE IF LimitReached(info, row)
    THEN Result(FALSE, "Video limit exceeded", 0)
    ELSE Result(TRUE, "Welcome back!", Remaining(info.max_videos, row.videos_used))

\* Mutant: the is_used test left out.
CodeTakenNever(info) == FALSE

\* "if not is_admin and is_used": the code is taken.
CodeTaken(info) == ~info.is_admin /\ info.is_used

\* Mutant: INSERT OR REPLACE, no conflict is raised.
InsertConflictNever(us, u) == FALSE

\* INSERT INTO users raises IntegrityError when the username has a row
\* (PRIMARY KEY); the with-block rolls back and the except branch returns.
InsertConflict(us, u) == u \in DOMAIN us

RegisterUsers(us, u, c) == us @@ (u :> [code |-> c, videos_used |-> 0])

\* Mutant: the INSERT committed on its own, the UPDATE lost.
RegisterCodesNever(cs, c, info) == cs

\* Mutant: the UPDATE issued for admin codes as well.
RegisterCodesAdminToo(cs, c, info) ==
    IF c \in DOMAIN cs THEN [cs EXCEPT ![c].is_used = TRUE] ELSE cs

\* "UPDATE codes SET is_used = 1 WHERE code = ?" for a non-admin code; the
\* UPDATE of a row that is gone changes nothing.
RegisterCodes(cs, c, info) ==
    IF ~info.is_admin /\ c \in DOMAIN cs THEN [cs EXCEPT ![c].is_used = TRUE] ELSE cs

NewUserResult(info) == Result(TRUE, "Welcome new user!", Remaining(info.max_videos, 0))

\* Mutant: a bound username that presents another existing code is moved to
\* that code.
validate_user_rebinding(cs, us, u, c) ==
    IF c \notin DOMAIN cs
    THEN [codes |-> cs, users |-> us, res |-> Result(FALSE, "Invalid code", 0)]
    ELSE IF u \in DOMAIN us /\ us[u].code # c
    THEN [codes |-> cs, users |-> [us EXCEPT ![u].code = c],
          res |-> Result(TRUE, "Welcome back!", Remaining(cs[c].max_videos, us[u].videos_used))]
    ELSE IF u \in DOMAIN us
    THEN [codes |-> cs, users |-> us, res |-> BoundUserResult(cs[c], us[u], c)]
    ELSE IF CodeTaken(cs[c])
    THEN [codes |-> cs, users |-> us,
          res |-> Result(FALSE, "This code has already been used", 0)]
    ELSE [codes |-> RegisterCodes(cs, c, cs[c]), users |-> RegisterUsers(us, u, c),
          res |-> NewUserResult(cs[c])]

\* validate_user run from its first statement to its return with no other
\* connection in between: the tables it leaves and the tuple it returns.
validate_user(cs, us, u, c) ==
    IF c \notin DOMAIN cs
    THEN [codes |-> cs, users |-> us, res |-> Result(FALSE, "Invalid code", 0)]
    ELSE IF u \in DOMAIN us
    THEN [codes |-> cs, users |-> us, res |-> BoundUserResult(cs[c], us[u], c)]
    ELSE IF CodeTaken(cs[c])
    THEN [codes |-> cs, users |-> us,
          res |-> Result(FALSE, "This code has already been used", 0)]
    ELSE [codes |-> RegisterCodes(cs, c, cs[c]), users |-> RegisterUsers(us, u, c),
          res |-> NewUserResult(cs[c])]

\* A write that commits while other calls are between their statements; the
\* mark is dropped when the marked call returns.
Overlapped(self) == [v \in Clients |-> v # self /\ (vpc[v] # "idle" \/ vdirty[v])]
Cleared(v) == [vdirty EXCEPT ![v] = FALSE]

Returned(v) ==
    /\ vpc' = [vpc EXCEPT ![v] = "idle"]
    /\ vcode' = [vcode EXCEPT ![v] = ""]
    /\ vinfo' = [vinfo EXCEPT ![v] = NoInfo]

\* The history of first bindings once u has been inserted with code c.
FirstBinding(u, c) ==
    IF first_code[u] = "" THEN [first_code EXCEPT ![u] = c] ELSE first_code

\* First SELECT: the code row.
validate_select_code(v, c) ==
    /\ vpc[v] = "idle"
    /\ IF c \notin DOMAIN codes
       THEN /\ ret' = ValidateRet(v, vuser[v], c, Result(FALSE, "Invalid code", 0), TRUE)
            /\ UNCHANGED <<vpc, vcode, vinfo>>
       ELSE /\ vcode' = [vcode EXCEPT ![v] = c]
            /\ vinfo' = [vinfo EXCEPT ![v] = codes[c]]
            /\ vpc' = [vpc EXCEPT ![v] = "select_user"]
            /\ ret' = NoRet
    /\ UNCHANGED <<ledgerVars, vuser, vdirty, sessionVars, orchVars>>

\* Second SELECT: the user row, and every return that follows from it.
validate_select_user(v) ==
    /\ vpc[v] = "select_user"
    /\ IF vuser[v] \in DOMAIN users
       THEN /\ ret' = ValidateRet(v, vuser[v], vcode[v],
                         BoundUserResult(vinfo[v], users[vuser[v]], vcode[v]), ~vdirty[v])
            /\ Returned(v)
            /\ vdirty' = Cleared(v)
       ELSE IF CodeTaken(vinfo[v])
       THEN /\ ret' = ValidateRet(v, vuser[v], vcode[v],
                         Result(FALSE, "This code has already been used", 0), ~vdirty[v])
            /\ Returned(v)
            /\ vdirty' = Cleared(v)
       ELSE /\ vpc' = [vpc EXCEPT ![v] = "insert"]
            /\ ret' = NoRet
            /\ UNCHANGED <<vcode, vinfo, vdirty>>
    /\ UNCHANGED <<ledgerVars, vuser, sessionVars, orchVars>>

\* The write transaction: INSERT INTO users, UPDATE codes SET is_used, commit.
\* The foreign key is declared but sqlite does not enforce it by default.
validate_register(v) ==
    /\ vpc[v] = "insert"
    /\ Returned(v)
    /\ IF InsertConflict(users, vuser[v])
       THEN /\ ret' = ValidateRet(v, vuser[v], vcode[v],
                         Result(FALSE, "Authentication error", 0), ~vdirty[v])
            /\ vdirty' = Cleared(v)
            /\ UNCHANGED ledgerVars
       ELSE /\ users' = RegisterUsers(users, vuser[v], vcode[v])
            /\ codes' = RegisterCodes(codes, vcode[v], vinfo[v])
            /\ consumed' = [consumed EXCEPT ![vuser[v]] = 0]
            /\ first_code' = FirstBinding(vuser[v], vcode[v])
            /\ UNCHANGED issued
            /\ vdirty' = Overlapped(v)
            /\ ret' = ValidateRet(v, vuser[v], vcode[v], NewUserResult(vinfo[v]), ~vdirty[v])
    /\ UNCHANGED <<vuser, sessionVars, orchVars>>

\* The write transaction broken off after its INSERT: a sqlite3.Error raised
\* by the UPDATE or the commit leaves the with-block by exception, the block
\* rolls the INSERT back and "except Exception" returns the error tuple.
validate_register_fault(v) ==
    /\ vpc[v] = "insert"
    /\ ~InsertConflict(users, vuser[v])
    /\ Returned(v)
    /\ ret' = ValidateRet(v, vuser[v], vcode[v], Result(FALSE, "Authentication error", 0), ~vdirty[v])
    /\ vdirty' = Cleared(v)
    /\ UNCHANGED <<ledgerVars, vuser, sessionVars, orchVars>>

\* ---------------------------------------------------------- increment_usage
\* Mutant: the new count computed from the count of a fresh row, not from the
\* stored one.
increment_usage_users_lost(us, u) ==
    IF u \in DOMAIN us THEN [us EXCEPT ![u].videos_used = 1] ELSE us

\* UPDATE users SET videos_used = videos_used + 1 WHERE username = ?
\* One statement: sqlite reads and writes the row under the write lock.
increment_usage_users(us, u) ==
    IF u \in DOMAIN us THEN [us EXCEPT ![u].videos_used = @ + 1] ELSE us

\* "conn.commit(); return True": the number of rows the UPDATE matched is
\* not looked at; False is returned from the except branch only.
increment_usage_result(us, u) == TRUE

increment_usage(u) ==
    /\ u \in DOMAIN users => users[u].videos_used < MaxUsed
    /\ users' = increment_usage_users(users, u)
    /\ consumed' = IF u \in DOMAIN users THEN [consumed EXCEPT ![u] = @ + 1] ELSE consumed
    /\ ret' = Ret("increment_usage", 0, u, "", increment_usage_result(users, u), "", 0, TRUE)
    /\ UNCHANGED <<codes, issued, first_code, clientVars, sessionVars, orchVars>>

\* -------------------------------------------------------------- create_code
\* generate_unique_code returns a code string that has no row; create_code
\* inserts it.
generate_unique_code(cs) == RandomCodes \ DOMAIN cs

create_code_codes(cs, c, max_videos, is_admin) ==
    cs @@ (c :> [max_videos |-> max_videos, is_admin |-> is_admin, is_used |-> FALSE])

create_code(c, max_videos, is_admin) ==
    /\ issued < MaxIssues
    /\ issued' = issued + 1
    /\ c \in generate_unique_code(codes)
    /\ codes' = create_code_codes(codes, c, max_videos, is_admin)
    /\ vdirty' = Overlapped(0)
    /\ ret' = NoRet
    /\ UNCHANGED <<users, consumed, first_code, vpc, vuser, vcode, vinfo, sessionVars, orchVars>>

\* Mutant: codes.code without its PRIMARY KEY.
InsertCodeConflictNever(cs, c) == FALSE

\* INSERT INTO codes raises IntegrityError when the code has a row.
InsertCodeConflict(cs, c) == c \in DOMAIN cs

\* create_code as two steps of a client: generate_unique_code on a
\* connection of its own, then the INSERT and commit.
create_code_generate(v, c, max_videos, is_admin) ==
    /\ vpc[v] = "idle"
    /\ issued < MaxCalls
    /\ issued' = issued + 1
    /\ c \in generate_unique_code(codes)
    /\ vpc' = [vpc EXCEPT ![v] = "create_insert"]
    /\ vcode' = [vcode EXCEPT ![v] = c]
    /\ vinfo' = [vinfo EXCEPT ![v] = [max_videos |-> max_videos, is_admin |-> is_admin,
                                      is_used |-> FALSE]]
    /\ ret' = NoRet
    /\ UNCHANGED <<codes, users, consumed, first_code, vuser, vdirty, sessionVars, orchVars>>

\* "except sqlite3.IntegrityError: return False, ''"
create_code_insert(v) ==
    /\ vpc[v] = "create_insert"
    /\ Returned(v)
    /\ IF InsertCodeConflict(codes, vcode[v])
       THEN /\ ret' = IssueRet("create_code", v, << >>, 1, vcode[v])
            /\ vdirty' = Cleared(v)
            /\ UNCHANGED codes
       ELSE /\ codes' = create_code_codes(codes, vcode[v], vinfo[v].max_videos, vinfo[v].is_admin)
            /\ ret' = IssueRet("create_code", v, <<vcode[v]>>, 1, "")
            /\ vdirty' = Overlapped(v)
    /\ UNCHANGED <<users, consumed, issued, first_code, vuser, sessionVars, orchVars>>

\* create_code with the loop of generate_unique_code spelled out.  The call
\* enters "while True"; each pass draws a string and runs the SELECT for it on
\* a connection of its own; the loop is left, by "return code", only from a
\* pass whose string has no row.  There is no other exit: no counter, no
\* exception raised when every string has a row.
create_code_enter(v, max_videos, is_admin) ==
    /\ vpc[v] = "idle"
    /\ issued < MaxCalls
    /\ issued' = issued + 1
    /\ vpc' = [vpc EXCEPT ![v] = "generate"]
    /\ vinfo' = [vinfo EXCEPT ![v] = [max_videos |-> max_videos, is_admin |-> is_admin,
                                      is_used |-> FALSE]]
    /\ ret' = NoRet
    /\ UNCHANGED <<codes, users, consumed, first_code, vuser, vcode, vdirty, sessionVars, orchVars>>

generate_unique_code_pass(v, c) ==
    /\ vpc[v] = "generate"
    /\ vcode' = [vcode EXCEPT ![v] = c]
    /\ vpc' = [vpc EXCEPT ![v] = IF c \in generate_unique_code(codes)
                                 THEN "create_insert" ELSE "generate"]
    /\ ret' = NoRet
    /\ UNCHANGED <<ledgerVars, vuser, vinfo, vdirty, sessionVars, orchVars>>

\* --------------------------------------------------------- create_bulk_codes
\* The loop of INSERTs over the generated codes, in order: how many succeed
\* before one raises, and the table with every code of the list inserted.
RECURSIVE bulk_inserted(_, _, _)
bulk_inserted(cs, batch, max_videos) ==
    IF batch = << >> THEN 0
    ELSE IF InsertCodeConflict(cs, Head(batch)) THEN 0
    ELSE 1 + bulk_inserted(create_code_codes(cs, Head(batch), max_videos, FALSE),
                           Tail(batch), max_videos)

RECURSIVE bulk_rows(_, _, _)
bulk_rows(cs, batch, max_videos) ==
    IF batch = << >> THEN cs
    ELSE bulk_rows(create_code_codes(cs, Head(batch), max_videos, FALSE),
                   Tail(batch), max_videos)

\* Mutant: the rows inserted before the failing INSERT are committed.
create_bulk_codes_partial(cs, batch, max_videos) ==
    bulk_rows(cs, SubSeq(batch, 1, bulk_inserted(cs, batch, max_videos)), max_videos)

\* The codes table the call leaves: the with-block commits when the loop
\* ran through and rolls back when an INSERT raised.
create_bulk_codes_codes(cs, batch, max_videos) ==
    IF bulk_inserted(cs, batch, max_videos) = Len(batch)
    THEN bulk_rows(cs, batch, max_videos)
    ELSE cs

\* "created_codes" on success, "return []" from the except branch.
create_bulk_codes_result(cs, batch, max_videos) ==
    IF bulk_inserted(cs, batch, max_videos) = Len(batch) THEN batch ELSE << >>

\* The first pass of the loop up to its INSERT: the first code is generated
\* while the connection of the call holds no lock yet.
create_bulk_codes_generate(v, c, max_videos) ==
    /\ vpc[v] = "idle"
    /\ issued < MaxCalls
    /\ issued' = issued + 1
    /\ c \in generate_unique_code(codes)
    /\ vpc' = [vpc EXCEPT ![v] = "bulk_insert"]
    /\ vcode' = [vcode EXCEPT ![v] = c]
    /\ vinfo' = [vinfo EXCEPT ![v] = [max_videos |-> max_videos, is_admin |-> FALSE,
                                      is_used |-> FALSE]]
    /\ ret' = NoRet
    /\ UNCHANGED <<codes, users, consumed, first_code, vuser, vdirty, sessionVars, orchVars>>

\* The write transaction of the call: the first INSERT, then for each further
\* code generate_unique_code, which reads the committed table on another
\* connection and so does not see the rows of this batch, and its INSERT;
\* then commit, or rollback and [].  rest is what the generator returns in
\* the further passes; num_codes matters from the second pass on and is
\* drawn here.
create_bulk_codes_insert(v, num_codes, rest) ==
    /\ vpc[v] = "bulk_insert"
    /\ Len(rest) = num_codes - 1
    /\ \A i \in DOMAIN rest : rest[i] \in generate_unique_code(codes) \cup {vcode[v]}
    /\ LET batch == <<vcode[v]>> \o rest
           created == create_bulk_codes_result(codes, batch, vinfo[v].max_videos)
           failed == IF created # << >> THEN ""
                     ELSE batch[bulk_inserted(codes, batch, vinfo[v].max_videos) + 1]
       IN  /\ codes' = create_bulk_codes_codes(codes, batch, vinfo[v].max_videos)
           /\ ret' = IssueRet("create_bulk_codes", v, created, num_codes, failed)
           /\ vdirty' = IF created # << >> THEN Overlapped(v) ELSE Cleared(v)
    /\ Returned(v)
    /\ UNCHANGED <<users, consumed, issued, first_code, vuser, sessionVars, orchVars>>

\* -------------------------------------------------------------- delete_code
\* DELETE FROM users WHERE code = ?; DELETE FROM codes WHERE code = ?
\* Mutant: the users of the code are left in place.
delete_code_users_kept(us, c) == us

delete_code_users(us, c) == Without(us, {u \in DOMAIN us : us[u].code = c})
delete_code_codes(cs, c) == Without(cs, {c})

\* Rows the two DELETE statements remove.
delete_code_rowcount(cs, us, c) ==
    Cardinality({u \in DOMAIN us : us[u].code = c}) + Cardinality({c} \cap DOMAIN cs)

delete_code(c) ==
    /\ users' = delete_code_users(users, c)
    /\ codes' = delete_code_codes(codes, c)
    /\ consumed' = [u \in Usernames |-> IF u \in DOMAIN users' THEN consumed[u] ELSE 0]
    /\ vdirty' = Overlapped(0)
    /\ ret' = Ret("delete_code", 0, "", c, TRUE, "", delete_code_rowcount(codes, users, c), TRUE)
    /\ UNCHANGED <<issued, first_code, vpc, vuser, vcode, vinfo, sessionVars, orchVars>>

\* AuthManager() is constructed on every run of the script, so init_db runs
\* again on an initialised store.
init_db ==
    /\ codes' = init_db_codes(codes)
    /\ users' = init_db_users(users)
    /\ ret' = Ret("init_db", 0, ADMIN_USERNAME, ADMIN_CODE, TRUE, "", 0, TRUE)
    /\ UNCHANGED <<consumed, issued, first_code, clientVars, sessionVars, orchVars>>

\* ----------------------------------------------------------------- is_admin
\* SELECT c.is_admin FROM users u JOIN codes c ON u.code = c.code WHERE ...
is_admin(cs, us, u) ==
    /\ u \in DOMAIN us
    /\ us[u].code \in DOMAIN cs
    /\ cs[us[u].code].is_admin

\* --------------------------------------------------- Step_1_download_video
\* datetime.now().strftime("%Y%m%d_%H%M%S") at second t of the clock, as
\* <<minute, second>>, and strftime("%Y%m%d_%H%M"), the minute alone.
Stamp(t) == <<t \div 60, t % 60>>
PartialStamp(t) == t \div 60

\* What download_from_url is called with: a URL, or the path of a file for
\* which os.path.isfile is true.
DownloadInputs == {"url", "local"}

\* Files of output_dir / "video": name <<stem, stamp>> and modification time
\* (the files are written one after the other: the time is kept as the
\* number of the write).
\* outtmpl is video_dir / 'video_{timestamp}.%(ext)s', remuxed to mp4.
VideoFile(stamp, k) == [stem |-> "video_", stamp |-> stamp, mtime |-> k]
\* dest_path = video_dir / f"{sanitized_name}.mp4", sanitized_name made of
\* the basename of the input ("clip.mp4" gives "clipmp4"); no timestamp.
LocalFile(k) == [stem |-> "clipmp4", stamp |-> << >>, mtime |-> k]
NoFile == [stem |-> "", stamp |-> << >>, mtime |-> 0]

NoDownload == [pc |-> "idle", now |-> 0, calls |-> 0, stamp |-> << >>, files |-> {},
               acquired |-> NoFile, result |-> NoFile]

\* The directory once file f has been written (a file of that name replaced).
Written(files, f) == {g \in files : g.stem # f.stem \/ g.stamp # f.stamp} \cup {f}

\* video_dir.glob(f"video_{timestamp}*.mp4") with the partial timestamp of
\* the moment of the lookup.
Glob(files, t) ==
    {f \in files : f.stem = "video_" /\ f.stamp # << >> /\ f.stamp[1] = PartialStamp(t)}

\* max(video_files, key=lambda p: p.stat().st_mtime)
Latest(fs) == CHOOSE f \in fs : \A g \in fs : g.mtime <= f.mtime

\* download_from_url from the return of execute_step on: what it raises or
\* returns, given the files present and the file the step has written.
download_lookup(input, success, files, acquired) ==
    LET video_files == Glob(files, download.now) IN
    /\ download' = [download EXCEPT !.pc = "idle", !.stamp = << >>, !.files = files,
                                    !.calls = IF input = "local" THEN @ + 1 ELSE @,
                                    !.acquired = acquired,
                                    !.result = IF success /\ video_files # {}
                                               THEN Latest(video_files) ELSE NoFile]
    /\ ret' = Ret("download_from_url", 0, input, "", success /\ video_files # {},
                  IF ~success THEN "Failed to download video"
                  ELSE IF video_files = {} THEN "Downloaded video file not found"
                  ELSE "", IF success THEN 1 ELSE 0, TRUE)

\* The call up to the point where it waits: for a local file execute_step
\* copies it (or fails) and returns; for a URL VideoDownloader.download fixes
\* the output name in _get_ydl_opts and starts yt-dlp.
download_from_url(input, copied) ==
    /\ download.pc = "idle"
    /\ download.calls < MaxDownloads
    /\ IF input = "local"
       THEN IF copied
            THEN download_lookup(input, TRUE,
                                 Written(download.files, LocalFile(download.calls + 1)),
                                 LocalFile(download.calls + 1))
            ELSE download_lookup(input, FALSE, download.files, NoFile)
       ELSE /\ download' = [download EXCEPT !.pc = "ydl", !.calls = @ + 1,
                                            !.stamp = Stamp(download.now),
                                            !.acquired = NoFile, !.result = NoFile]
            /\ ret' = NoRet
    /\ UNCHANGED <<ledgerVars, clientVars, outcome, sessionVars, orchVars>>

\* ydl.extract_info(url, download=True) returns with the file written, or
\* raises; execute_step returns and download_from_url goes on.
download_extracted(success) ==
    /\ download.pc = "ydl"
    /\ IF success
       THEN download_lookup("url", TRUE,
                            Written(download.files, VideoFile(download.stamp, download.calls)),
                            VideoFile(download.stamp, download.calls))
       ELSE download_lookup("url", FALSE, download.files, NoFile)
    /\ UNCHANGED <<ledgerVars, clientVars, outcome, sessionVars, orchVars>>

\* The wall clock moves on.
clock_tick ==
    /\ download.now + ClockStep <= MaxClock
    /\ download' = [download EXCEPT !.now = @ + ClockStep]
    /\ ret' = NoRet
    /\ UNCHANGED <<ledgerVars, clientVars, outcome, sessionVars, orchVars>>

\* -------------------------------------------------------------------- Init
InitLedger ==
    /\ codes = init_db_codes(EmptyTable)
    /\ users = init_db_users(EmptyTable)
    /\ consumed = [u \in Usernames |-> 0]
    /\ issued = 0
    /\ first_code = [u \in Usernames |-> IF u \in DOMAIN users THEN users[u].code ELSE ""]

InitClients ==
    /\ vpc = [v \in Clients |-> "idle"]
    /\ vuser = ClientUser
    /\ vcode = [v \in Clients |-> ""]
    /\ vinfo = [v \in Clients |-> NoInfo]
    /\ vdirty = [v \in Clients |-> FALSE]
    /\ outcome = [v \in Clients |-> NoResult]
    /\ download = NoDownload

InitSession ==
    /\ authenticated = FALSE
    /\ username = ""
    /\ session_is_admin = FALSE
    /\ remaining_videos = 0

InitOrch ==
    /\ is_processing = FALSE
    /\ processing_start_time = NoTime
    /\ video_url = ""
    /\ uploaded_file = FALSE
    /\ rpc = [r \in Runs |-> "idle"]
    /\ rsrc = [r \in Runs |-> ""]
    /\ tmp = [r \in Runs |-> FALSE]
    /\ owner = 0

\* Nothing that cleanup_memory looks at is in the working directory.
NoDisk == [n \in {} |-> [dir |-> FALSE, age |-> 0]]
InitDisk == disk = NoDisk

Init ==
    /\ InitLedger
    /\ InitClients
    /\ InitSession
    /\ InitOrch
    /\ InitDisk
    /\ ret = NoRet

\* ------------------------------------------------------------------- login
\* The login form: validate_user, then login() on success.
login_submit(u, c) ==
    /\ ~authenticated
    /\ LET r == validate_user(codes, users, u, c) IN
        /\ codes' = r.codes
        /\ users' = r.users
        /\ ret' = ValidateRet(0, u, c, r.res, TRUE)
        /\ first_code' = IF u \in DOMAIN r.users \ DOMAIN users
                         THEN FirstBinding(u, c) ELSE first_code
        /\ IF r.res.ok
           THEN /\ remaining_videos' = r.res.remaining
                /\ authenticated' = TRUE
                /\ username' = u
                /\ session_is_admin' = is_admin(r.codes, r.users, u)
           ELSE UNCHANGED sessionVars
    /\ UNCHANGED <<consumed, issued, clientVars, outcome, download, orchVars>>

logout ==
    /\ authenticated
    /\ authenticated' = FALSE
    /\ username' = ""
    /\ session_is_admin' = FALSE
    /\ ret' = NoRet
    /\ UNCHANGED <<remaining_videos, ledgerVars, clientVars, outcome, download, orchVars>>

\* ------------------------------------------------------------ process_video
Age == processing_start_time[1]

\* "(datetime.now() - processing_start_time).total_seconds() > 300"
Stale == Age > STALE_SECONDS

\* Mutant: no test of the flag in front of the try block.
RefusedNever(flag) == FALSE

\* process_video returns at once: a start time is recorded and is not stale.
Refused(flag) == flag /\ processing_start_time # NoTime /\ ~Stale

\* Mutant: the flag cleared after the awaits of the try body, not in finally.
FinallyFlagOnSuccessOnly(result) == result # "ok"

\* The finally block: is_processing = False; delattr processing_start_time.
FinallyFlag(result) == FALSE
FinallyStart(result) == NoTime

\* cleanup_memory(force=True) collects garbage and removes old temp_* and
\* output_* directories; it does not touch the file NamedTemporaryFile wrote.
cleanup_memory_tmp(t) == t

\* Path().glob(pattern) for pattern in ['temp_*', 'output_*'].
Matches(n) == n[1] \in {"temp_", "output_"}

\* Mutant: the age test with >= in place of >.
SweptInclusive(d, n) == Matches(n) /\ d[n].dir /\ d[n].age >= SWEEP_SECONDS

\* "if path.is_dir(): if current_time - path.stat().st_mtime > 3600"
Swept(d, n) == Matches(n) /\ d[n].dir /\ d[n].age > SWEEP_SECONDS

\* The listing cleanup_memory leaves (shutil.rmtree of each swept entry), and
\* how many entries it removed.  The sweep is outside the "if force or not
\* is_processing" that guards gc.collect, so it runs whatever force is.
cleanup_memory_disk(d) == Without(d, {n \in DOMAIN d : Swept(d, n)})
cleanup_memory_removed(d) == Cardinality({n \in DOMAIN d : Swept(d, n)})

\* The listing after s more seconds.
Aged(d, s) ==
    [n \in DOMAIN d |-> [d[n] EXCEPT !.age = IF @ + s > MaxDirAge THEN MaxDirAge ELSE @ + s]]

\* check_video_limit: "if not is_admin and remaining_videos == 0: return False".
check_video_limit(adm, remaining) == ~(~adm /\ remaining = 0)

\* update_video_usage: increment_usage for the session's username unless the
\* session is an admin's; the session's count drops when it returned True.
update_video_usage ==
    IF ~session_is_admin
    THEN /\ users' = increment_usage_users(users, username)
         /\ consumed' = IF username \in DOMAIN users
                        THEN [consumed EXCEPT ![username] = @ + 1] ELSE consumed
         /\ remaining_videos' = IF increment_usage_result(users, username)
                                 THEN remaining_videos - 1 ELSE remaining_videos
         /\ UNCHANGED <<codes, issued, first_code>>
    ELSE UNCHANGED <<ledgerVars, remaining_videos>>

\* Mutant: update_video_usage called when the awaited pipeline is over.
CallsUpdateVideoUsageAlways(result) == TRUE

\* No statement of the script calls update_video_usage (or
\* check_video_limit), whatever the result of the pipeline.
CallsUpdateVideoUsage(result) == FALSE

\* What a successful job reports to the ledger: process_video never calls
\* update_video_usage, the tables stay as they are.
process_video_ledger == UNCHANGED ledgerVars

\* process_video from its first statement to its first await, or to its end
\* when it awaits nothing.  flag is is_processing as the caller left it.
process_video(r, entry, flag) ==
    IF Refused(flag)
    THEN /\ is_processing' = flag
         /\ ret' = Ret("process_video", r, entry, "", FALSE, "Already processing a video", 0, TRUE)
         /\ UNCHANGED <<processing_start_time, rpc, rsrc, tmp, owner, disk>>
    ELSE IF video_url' # ""
    THEN /\ processing_start_time' = <<0>>
         /\ is_processing' = TRUE
         /\ rpc' = [rpc EXCEPT ![r] = "pipeline"]
         /\ rsrc' = [rsrc EXCEPT ![r] = video_url']
         /\ tmp' = [tmp EXCEPT ![r] = FALSE]
         /\ owner' = r
         /\ UNCHANGED disk
         /\ ret' = Ret("process_video", r, entry, video_url', TRUE, "Starting video processing", 0, TRUE)
    ELSE IF uploaded_file
    THEN /\ processing_start_time' = <<0>>
         /\ is_processing' = TRUE
         /\ rpc' = [rpc EXCEPT ![r] = "pipeline"]
         /\ rsrc' = [rsrc EXCEPT ![r] = "upload"]
         /\ tmp' = [tmp EXCEPT ![r] = TRUE]
         /\ owner' = r
         /\ UNCHANGED disk
         /\ ret' = Ret("process_video", r, entry, "upload", TRUE, "Starting video processing", 0, TRUE)
    ELSE /\ processing_start_time' = FinallyStart("ok")
         /\ is_processing' = FinallyFlag("ok")
         /\ tmp' = cleanup_memory_tmp([tmp EXCEPT ![r] = FALSE])
         /\ owner' = 0
         /\ disk' = cleanup_memory_disk(disk)
         /\ ret' = Ret("process_video", r, entry, "", TRUE, "Processing complete!",
                       cleanup_memory_removed(disk), TRUE)
         /\ UNCHANGED <<rpc, rsrc>>

\* "Process Example n": stores the example's file:// URL in the session.
process_example(r) ==
    /\ authenticated
    /\ rpc[r] = "idle"
    /\ video_url' = ExampleUrl
    /\ process_video(r, "process_example", is_processing)
    /\ UNCHANGED <<uploaded_file, ledgerVars, clientVars, outcome, download, sessionVars>>

\* "Process Video" under the uploader.
process_upload(r) ==
    /\ authenticated
    /\ rpc[r] = "idle"
    /\ uploaded_file
    /\ UNCHANGED video_url
    /\ IF ~is_processing
       THEN process_video(r, "process_upload", TRUE)
       ELSE /\ ret' = Ret("process_upload", r, "process_upload", "", FALSE,
                          "Already processing a video", 0, TRUE)
            /\ UNCHANGED <<is_processing, processing_start_time, rpc, rsrc, tmp, owner, disk>>
    /\ UNCHANGED <<uploaded_file, ledgerVars, clientVars, outcome, download, sessionVars>>

HasHttpScheme(url) == url[1] \in {"http://", "https://"}

\* "Process URL" under the text input.
process_url(r, url) ==
    /\ authenticated
    /\ rpc[r] = "idle"
    /\ UNCHANGED video_url
    /\ IF ~HasHttpScheme(url)
       THEN /\ ret' = Ret("process_url", r, "process_url", "", FALSE,
                          "Please provide a valid URL", 0, TRUE)
            /\ UNCHANGED <<is_processing, processing_start_time, rpc, rsrc, tmp, owner, disk>>
       ELSE LET flag == IF is_processing /\ processing_start_time # NoTime /\ Stale
                        THEN FALSE ELSE is_processing
            IN  IF ~flag
                THEN process_video(r, "process_url", flag)
                ELSE /\ ret' = Ret("process_url", r, "process_url", "", FALSE,
                                   "Already processing a video", 0, TRUE)
                     /\ is_processing' = flag
                     /\ UNCHANGED <<processing_start_time, rpc, rsrc, tmp, owner, disk>>
    /\ UNCHANGED <<uploaded_file, ledgerVars, clientVars, outcome, download, sessionVars>>

PipelineMessage(result) ==
    IF result = "ok" THEN "Processing complete!"
    ELSE IF result = "exception" THEN "Error processing video"
    ELSE "fault"

\* The awaited pipeline returns ("ok"), raises an Exception ("exception") or
\* is torn down by a BaseException ("fault"); then the rest of process_video.
pipeline_end(r, result) ==
    /\ rpc[r] = "pipeline"
    /\ rpc' = [rpc EXCEPT ![r] = "idle"]
    /\ rsrc' = [rsrc EXCEPT ![r] = ""]
    /\ IF CallsUpdateVideoUsage(result)
       THEN update_video_usage
       ELSE process_video_ledger /\ UNCHANGED remaining_videos
    /\ is_processing' = FinallyFlag(result)
    /\ processing_start_time' = FinallyStart(result)
    /\ tmp' = cleanup_memory_tmp(tmp)
    /\ owner' = IF owner = r THEN 0 ELSE owner
    /\ disk' = cleanup_memory_disk(disk)
    /\ ret' = Ret("process_video", r, "await", rsrc[r], result = "ok", PipelineMessage(result),
                  cleanup_memory_removed(disk), TRUE)
    /\ UNCHANGED <<video_url, uploaded_file, clientVars, outcome, download,
                   authenticated, username, session_is_admin>>

\* The file_uploader widget gets a file, or loses it.
choose_file(b) ==
    /\ authenticated
    /\ uploaded_file # b
    /\ uploaded_file' = b
    /\ ret' = NoRet
    /\ UNCHANGED <<is_processing, processing_start_time, video_url, rpc, rsrc, tmp, owner, disk,
                   ledgerVars, clientVars, outcome, download, sessionVars>>

\* Time passes; it is observed through the age of the start time and the
\* ages of the directory entries.
Tick ==
    /\ processing_start_time # NoTime
    /\ Age < MaxAge
    /\ processing_start_time' = <<Age + TickSeconds>>
    /\ disk' = Aged(disk, TickSeconds)
    /\ ret' = NoRet
    /\ UNCHANGED <<is_processing, video_url, uploaded_file, rpc, rsrc, tmp, owner,
                   ledgerVars, clientVars, outcome, download, sessionVars>>

\* Time passes while no start time is recorded.
Wait ==
    /\ processing_start_time = NoTime
    /\ \E n \in DOMAIN disk : disk[n].age < MaxDirAge
    /\ disk' = Aged(disk, TickSeconds)
    /\ ret' = NoRet
    /\ UNCHANGED <<is_processing, processing_start_time, video_url, uploaded_file, rpc, rsrc,
                   tmp, owner, ledgerVars, clientVars, outcome, download, sessionVars>>

\* "Force Cleanup" in the sidebar: cleanup_memory().
force_cleanup ==
    /\ authenticated
    /\ disk' = cleanup_memory_disk(disk)
    /\ ret' = Ret("cleanup_memory", 0, "force_cleanup", "", TRUE, "Memory cleaned up!",
                  cleanup_memory_removed(disk), TRUE)
    /\ UNCHANGED <<is_processing, processing_start_time, video_url, uploaded_file, rpc, rsrc,
                   tmp, owner, ledgerVars, clientVars, outcome, download, sessionVars>>

\* ----------------------------------------------------------- specifications
Next ==
    \/ init_db /\ UNCHANGED <<outcome, download>>
    \/ \E v \in Clients, c \in CodeNames : validate_select_code(v, c) /\ UNCHANGED <<outcome, download>>
    \/ \E v \in Clients : validate_select_user(v) /\ UNCHANGED <<outcome, download>>
    \/ \E v \in Clients : validate_register(v) /\ UNCHANGED <<outcome, download>>
    \/ \E u \in LoginNames : increment_usage(u) /\ UNCHANGED <<outcome, download>>
    \/ \E c \in IssuableCodes, m \in MaxVideosValues, a \in BOOLEAN :
          create_code(c, m, a) /\ UNCHANGED <<outcome, download>>
    \/ \E c \in IssuableCodes : delete_code(c) /\ UNCHANGED <<outcome, download>>

Spec == Init /\ [][Next]_vars

\* Two calls of validate_user(u, c) for a username u without a row and a
\* non-admin code c nobody has used; each call is made once.
InitRace ==
    /\ \E c \in IssuableCodes, m \in MaxVideosValues, others \in SUBSET LoginNames :
        /\ codes = create_code_codes(init_db_codes(EmptyTable), c, m, FALSE)
        /\ users = [u \in {ADMIN_USERNAME} \cup others |-> [code |-> ADMIN_CODE, videos_used |-> 0]]
        /\ \E u \in LoginNames \ others : vuser = [v \in Clients |-> u]
    /\ consumed = [u \in Usernames |-> 0]
    /\ issued = 0
    /\ first_code = [u \in Usernames |-> IF u \in DOMAIN users THEN users[u].code ELSE ""]
    /\ vpc = [v \in Clients |-> "idle"]
    /\ vcode = [v \in Clients |-> ""]
    /\ vinfo = [v \in Clients |-> NoInfo]
    /\ vdirty = [v \in Clients |-> FALSE]
    /\ outcome = [v \in Clients |-> NoResult]
    /\ download = NoDownload
    /\ InitSession
    /\ InitOrch
    /\ InitDisk
    /\ ret = NoRet

Recorded(v) ==
    /\ outcome' = IF ret'.op = "validate_user"
                  THEN [outcome EXCEPT ![v] = Result(ret'.ok, ret'.msg, ret'.n)]
                  ELSE outcome
    /\ UNCHANGED download

NextRace ==
    \/ \E v \in Clients, c \in IssuableCodes :
          outcome[v] = NoResult /\ validate_select_code(v, c) /\ Recorded(v)
    \/ \E v \in Clients : validate_select_user(v) /\ Recorded(v)
    \/ \E v \in Clients : validate_register(v) /\ Recorded(v)

SpecRace == InitRace /\ [][NextRace]_vars

\* The two calls of SpecRace on a store whose write transaction can fail
\* half way.
NextAtomic ==
    \/ NextRace
    \/ \E v \in Clients : validate_register_fault(v) /\ Recorded(v)

SpecAtomic == InitRace /\ [][NextAtomic]_vars

\* The ledger called directly: codes of any max_videos, the unlimited one
\* included, validated and counted by concurrent clients.
NextUnlimited ==
    \/ \E v \in Clients, c \in CodeNames : validate_select_code(v, c) /\ UNCHANGED <<outcome, download>>
    \/ \E v \in Clients : validate_select_user(v) /\ UNCHANGED <<outcome, download>>
    \/ \E v \in Clients : validate_register(v) /\ UNCHANGED <<outcome, download>>
    \/ \E u \in LoginNames : increment_usage(u) /\ UNCHANGED <<outcome, download>>
    \/ \E c \in IssuableCodes, m \in LedgerMaxVideosValues, a \in BOOLEAN :
          create_code(c, m, a) /\ UNCHANGED <<outcome, download>>

SpecUnlimited == Init /\ [][NextUnlimited]_vars

\* One session.  The admin controls are rendered for an admin session only;
\* the Delete button is rendered for every listed code but 'ADMIN_MASTER'.
NextOrch ==
    \/ init_db /\ UNCHANGED <<outcome, download>>
    \/ \E u \in SessionNames, c \in CodeNames : login_submit(u, c)
    \/ logout
    \/ \E c \in IssuableCodes, m \in MaxVideosValues, a \in BOOLEAN :
          authenticated /\ session_is_admin /\ create_code(c, m, a) /\ UNCHANGED <<outcome, download>>
    \/ \E c \in DOMAIN codes \ {"ADMIN_MASTER"} :
          authenticated /\ session_is_admin /\ delete_code(c) /\ UNCHANGED <<outcome, download>>
    \/ \E b \in BOOLEAN : choose_file(b)
    \/ \E r \in Runs : process_example(r)
    \/ \E r \in Runs : process_upload(r)
    \/ \E r \in Runs, url \in UrlInputs : process_url(r, url)
    \/ \E r \in Runs, result \in {"ok", "exception", "fault"} : pipeline_end(r, result)
    \/ Tick

SpecOrch == Init /\ [][NextOrch]_vars

\* Two admin sessions issuing and deleting codes at once.
NextIssue ==
    \/ \E v \in Clients, c \in RandomCodes, m \in MaxVideosValues, a \in BOOLEAN :
          create_code_generate(v, c, m, a) /\ UNCHANGED <<outcome, download>>
    \/ \E v \in Clients : create_code_insert(v) /\ UNCHANGED <<outcome, download>>
    \/ \E v \in Clients, c \in RandomCodes, m \in MaxVideosValues :
          create_bulk_codes_generate(v, c, m) /\ UNCHANGED <<outcome, download>>
    \/ \E v \in Clients, n \in NumCodesValues, rest \in UNION {[1..k -> RandomCodes] : k \in 1..MaxBulk} :
          create_bulk_codes_insert(v, n, rest) /\ UNCHANGED <<outcome, download>>
    \/ \E c \in RandomCodes : delete_code(c) /\ UNCHANGED <<outcome, download>>

SpecIssue == Init /\ [][NextIssue]_vars

\* The admin sessions of SpecIssue with the passes of the generator as steps.
NextGenerate ==
    \/ \E v \in Clients, m \in MaxVideosValues, a \in BOOLEAN :
          create_code_enter(v, m, a) /\ UNCHANGED <<outcome, download>>
    \/ \E v \in Clients, c \in RandomCodes : generate_unique_code_pass(v, c) /\ UNCHANGED <<outcome, download>>
    \/ \E v \in Clients : create_code_insert(v) /\ UNCHANGED <<outcome, download>>
    \/ \E v \in Clients, c \in RandomCodes, m \in MaxVideosValues :
          create_bulk_codes_generate(v, c, m) /\ UNCHANGED <<outcome, download>>
    \/ \E v \in Clients, n \in NumCodesValues, rest \in UNION {[1..k -> RandomCodes] : k \in 1..MaxBulk} :
          create_bulk_codes_insert(v, n, rest) /\ UNCHANGED <<outcome, download>>
    \/ \E c \in RandomCodes : delete_code(c) /\ UNCHANGED <<outcome, download>>

\* A call that has started keeps running: the loop makes its next pass, a
\* string without a row is drawn sooner or later as long as there is one, and
\* the INSERT that follows the loop is executed.
FairGenerate ==
    \A v \in Clients :
        /\ WF_vars(\E c \in RandomCodes : generate_unique_code_pass(v, c) /\ UNCHANGED <<outcome, download>>)
        /\ WF_vars(\E c \in generate_unique_code(codes) :
                        generate_unique_code_pass(v, c) /\ UNCHANGED <<outcome, download>>)
        /\ WF_vars(create_code_insert(v) /\ UNCHANGED <<outcome, download>>)

SpecGenerate == Init /\ [][NextGenerate]_vars /\ FairGenerate

\* A session in a working directory that holds entries of any kind and age
\* when the script starts: jobs are started and end, time passes, "Force
\* Cleanup" is clicked.
Listings == UNION {[D -> [dir : BOOLEAN, age : DirAges]] : D \in SUBSET DirNames}

InitSweep ==
    /\ InitLedger
    /\ InitClients
    /\ InitSession
    /\ InitOrch
    /\ disk \in Listings
    /\ ret = NoRet

NextSweep ==
    \/ \E u \in SessionNames, c \in CodeNames : login_submit(u, c)
    \/ \E r \in Runs : process_example(r)
    \/ \E r \in Runs, url \in UrlInputs : process_url(r, url)
    \/ \E r \in Runs, result \in {"ok", "exception", "fault"} : pipeline_end(r, result)
    \/ force_cleanup /\ UNCHANGED <<outcome, download>>
    \/ Tick
    \/ Wait

SpecSweep == InitSweep /\ [][NextSweep]_vars

\* Calls of download_from_url, one after the other, while the clock runs.
NextDownload ==
    \/ \E input \in DownloadInputs, copied \in BOOLEAN : download_from_url(input, copied)
    \/ \E success \in BOOLEAN : download_extracted(success)
    \/ clock_tick

SpecDownload == Init /\ [][NextDownload]_vars

\* The session of SpecOrch on a store that other holders of an AuthManager
\* use as well: they call increment_usage for the metered usernames of the
\* session.
NextShared ==
    \/ NextOrch
    \/ \E u \in SessionNames \ {ADMIN_USERNAME} : increment_usage(u) /\ UNCHANGED <<outcome, download>>

SpecShared == Init /\ [][NextShared]_vars

TypeOK ==
    /\ DOMAIN codes \subseteq CodeNames \cup RandomCodes
    /\ DOMAIN users \subseteq Usernames
    /\ \A u \in DOMAIN users : users[u].videos_used \in 0..MaxUsed

\* ------------------------------------------------------------------- claims
BoundUsers(c) == {u \in DOMAIN users : users[u].code = c}

\* C1: every user bound to a non-admin code whose max_videos is not the
\* unlimited marker has videos_used <= max_videos in every reachable state.
C1_QuotaNeverExceeded ==
    \A u \in DOMAIN users :
        LET c == users[u].code IN
        (c \in DOMAIN codes /\ ~codes[c].is_admin /\ codes[c].max_videos >= 0)
            => users[u].videos_used <= codes[c].max_videos

\* C2: a validate_user call by the user bound to a non-admin code with
\* max_videos = N >= 1, not overlapped by a bind, issue or delete, returns
\* "Video limit exceeded" when exactly N increment_usage calls have updated the
\* user's row, and is accepted when fewer than N have.
C2_LimitAfterN ==
    (/\ ret.op = "validate_user"
     /\ ret.clean
     /\ ret.who \in DOMAIN users
     /\ ret.what \in DOMAIN codes
     /\ users[ret.who].code = ret.what
     /\ ~codes[ret.what].is_admin
     /\ codes[ret.what].max_videos >= 1)
    => /\ consumed[ret.who] = codes[ret.what].max_videos
            => (~ret.ok /\ ret.msg = "Video limit exceeded")
       /\ consumed[ret.who] < codes[ret.what].max_videos => ret.ok

C2_Witness ==
    /\ ret.op = "validate_user"
    /\ ret.clean
    /\ ret.msg = "Video limit exceeded"
    /\ ret.who \in DOMAIN users
    /\ ret.what \in DOMAIN codes
    /\ users[ret.who].code = ret.what
    /\ consumed[ret.who] = codes[ret.what].max_videos
    /\ consumed[ret.who] = MaxVideos

\* The step in which client v returns from validate_user.
Returns(v) == vpc[v] # "idle" /\ vpc'[v] = "idle"

\* C3: (a) a call that binds a new username to a non-admin code leaves the
\* code marked used; (b) a call validate_user(B, c) for a username B without a
\* row, where c is a non-admin code marked used to which another username is
\* bound, returns "This code has already been used"; (c) a call
\* validate_user(A, c2) for a username A bound to another code than the
\* existing code c2 returns "Username already registered with a different
\* code"; the calls of (b) and (c) leave both tables as they were.  (a) and
\* (b) are about calls not overlapped by a bind, issue or delete.
C3_BoundCodeRejectsOthers ==
    [][\A v \in Clients :
        LET B == vuser[v]
            c == vcode[v]
        IN
        /\ (/\ Returns(v)
            /\ ~vdirty[v]
            /\ B \notin DOMAIN users
            /\ B \in DOMAIN users'
            /\ c \in DOMAIN codes
            /\ ~codes[c].is_admin)
           => codes'[c].is_used
        /\ (/\ Returns(v)
            /\ ~vdirty[v]
            /\ B \notin DOMAIN users
            /\ c \in DOMAIN codes
            /\ ~codes[c].is_admin
            /\ codes[c].is_used
            /\ BoundUsers(c) \ {B} # {})
           => /\ ret'.msg = "This code has already been used"
              /\ ~ret'.ok
              /\ UNCHANGED <<codes, users>>
        /\ (/\ Returns(v)
            /\ B \in DOMAIN users
            /\ users[B].code # c)
           => /\ ret'.msg = "Username already registered with a different code"
              /\ ~ret'.ok
              /\ UNCHANGED <<codes, users>>
      ]_vars

C3_Witness ==
    /\ ret.op = "validate_user"
    /\ ret.clean
    /\ ret.msg = "This code has already been used"
    /\ ret.who \notin DOMAIN users
    /\ ret.what \in DOMAIN codes
    /\ ~codes[ret.what].is_admin
    /\ BoundUsers(ret.what) # {}

\* Both calls of the race have returned.
BothReturned == \A v \in Clients : vpc[v] = "idle" /\ outcome[v] # NoResult

C5_UsedCodeHasOneUser ==
    \A c \in DOMAIN codes :
        /\ (~codes[c].is_admin /\ codes[c].is_used) => Cardinality(BoundUsers(c)) = 1
        /\ codes[c].is_admin => ~codes[c].is_used

\* C6: at most one run of the session is inside the pipeline.
C6_SingleFlight == Cardinality({r \in Runs : rpc[r] = "pipeline"}) <= 1

EntryPoints == {"process_example", "process_upload", "process_url"}

\* C7: an admission attempt made through any of the three buttons while the
\* flag is set and the start time is more than 300 seconds old is admitted.
C7_StaleIsReclaimed ==
    [][(/\ is_processing
        /\ processing_start_time # NoTime
        /\ Stale
        /\ ret'.who \in EntryPoints
        /\ ret'.msg # "Please provide a valid URL")
       => ret'.ok
      ]_vars

\* C8: when process_video returns after it passed admission (success,
\* Exception or BaseException), is_processing is false and
\* processing_start_time is absent.
C8_FlagClearedOnReturn ==
    (/\ ret.op = "process_video"
     /\ ret.msg \in {"Processing complete!", "Error processing video", "fault"})
    => (~is_processing /\ processing_start_time = NoTime)

C8_Witness ==
    /\ ret.op = "process_video"
    /\ ret.who = "await"
    /\ ret.msg = "fault"
    /\ ~is_processing
    /\ processing_start_time = NoTime

\* C9: when a job has ended, on any exit path, the temporary file written for
\* it no longer exists.
C9_TempFileGone ==
    (ret.op = "process_video" /\ ret.who = "await") => ~tmp[ret.id]

\* C10: the step in which a job of a non-admin user ends in success raises
\* that user's videos_used by one.
C10_SuccessIsRecorded ==
    [][\A r \in Runs :
        (/\ rpc[r] = "pipeline"
         /\ rpc'[r] = "idle"
         /\ ret'.ok
         /\ authenticated
         /\ ~session_is_admin
         /\ username \in DOMAIN users)
        => users'[username].videos_used = users[username].videos_used + 1
      ]_vars

\* C14: the step in which delete_code(c) returns success leaves no row for c
\* in codes and no user bound to c, and every other row of both tables as it
\* was.
C14_DeleteCascades ==
    [][ret'.op = "delete_code" =>
        LET c == ret'.what IN
        /\ ret'.ok
        /\ c \notin DOMAIN codes'
        /\ {u \in DOMAIN users' : users'[u].code = c} = {}
        /\ DOMAIN codes' = DOMAIN codes \ {c}
        /\ \A d \in DOMAIN codes' : codes'[d] = codes[d]
        /\ DOMAIN users' = {u \in DOMAIN users : users[u].code # c}
        /\ \A u \in DOMAIN users' : users'[u] = users[u]
      ]_vars

C14_Witness ==
    /\ ret.op = "delete_code"
    /\ ret.ok
    /\ ret.n >= 2
    /\ ret.what \notin DOMAIN codes
    /\ DOMAIN users \ {ADMIN_USERNAME} # {}

\* C15: delete_code of a code that has no row returns success and leaves
\* codes and users as they were.
C15_DeleteIdempotent ==
    [][(ret'.op = "delete_code" /\ ret'.what \notin DOMAIN codes) =>
        (ret'.ok /\ codes' = codes /\ users' = users)
      ]_vars

\* C18: increment_usage for a username without a row reports failure.
C18_MissingUserFails ==
    (ret.op = "increment_usage" /\ ret.who \notin DOMAIN users) => ~ret.ok

C19_NeverRebinds ==
    \A u \in DOMAIN users : users[u].code = first_code[u]

\* C19 amended: no step changes the code of a user row that exists before
\* and after it; a username gets another code only through a registration
\* made when it has no row.
C19_CodeOfRowNeverChanges ==
    [][\A u \in DOMAIN users \cap DOMAIN users' : users'[u].code = users[u].code]_vars

C19_Witness ==
    \E u \in DOMAIN users :
        /\ first_code[u] # ""
        /\ users[u].code # first_code[u]

\* Run r enters the pipeline; run r leaves it.
Admitted(r) == rpc[r] = "idle" /\ rpc'[r] = "pipeline"
Ended(r) == rpc[r] = "pipeline" /\ rpc'[r] = "idle"

\* C11: a run is admitted for a non-admin session only if check_video_limit
\* allows it and the ledger has videos_used < max_videos for the username.
C11_AdmittedOnlyWithAllowance ==
    [][\A r \in Runs :
        (Admitted(r) /\ ~session_is_admin) =>
            /\ check_video_limit(session_is_admin, remaining_videos)
            /\ ((/\ username \in DOMAIN users
                 /\ users[username].code \in DOMAIN codes
                 /\ codes[users[username].code].max_videos >= 0)
                => users[username].videos_used < codes[users[username].code].max_videos)
      ]_vars

\* C12: the step in which a job ends in failure (Exception or fault) leaves
\* the users table and remaining_videos as they were, and so does the step
\* that admits a job.
C12_FailureConsumesNothing ==
    [][\A r \in Runs :
        ((Ended(r) /\ ~ret'.ok) \/ Admitted(r)) =>
            (users' = users /\ remaining_videos' = remaining_videos)
      ]_vars

C12_Witness ==
    /\ ret.op = "process_video"
    /\ ret.who = "await"
    /\ ret.msg = "Error processing video"
    /\ authenticated
    /\ ~session_is_admin
    /\ username \in DOMAIN users
    /\ remaining_videos > 0

\* C13: a validate_user call by a user bound to an admin code is never
\* rejected with "Video limit exceeded", and is accepted when it presents
\* that code; check_video_limit allows an admin session; the step in which
\* a job of an admin session ends leaves the users table as it was.
C13_AdminUnmetered ==
    [][/\ (/\ ret'.op = "validate_user"
            /\ ret'.who \in DOMAIN users
            /\ users[ret'.who].code \in DOMAIN codes
            /\ codes[users[ret'.who].code].is_admin)
           => /\ ret'.msg # "Video limit exceeded"
              /\ (users[ret'.who].code = ret'.what => ret'.ok)
        /\ (session_is_admin' => check_video_limit(session_is_admin', remaining_videos'))
        /\ \A r \in Runs : (Ended(r) /\ session_is_admin) => users' = users
      ]_vars

C13_Witness ==
    /\ ret.op = "validate_user"
    /\ ret.ok
    /\ session_is_admin
    /\ username = ret.who
    /\ username \in DOMAIN users
    /\ users[username].code = ret.what
    /\ ret.what \in DOMAIN codes
    /\ codes[ret.what].is_admin
    /\ codes[ret.what].max_videos >= 1
    /\ users[username].videos_used >= codes[ret.what].max_videos

\* The codes of a list, and the list has no string twice.
Range(q) == {q[i] : i \in DOMAIN q}
Distinct(q) == \A i, j \in DOMAIN q : i # j => q[i] # q[j]

\* C16: the codes an issue call returns when it succeeds have no row in the
\* store the call inserts into, are pairwise distinct, are as many as were
\* asked for, and have a row afterwards.
C16_IssuedCodesAreNew ==
    [][(ret'.op \in {"create_code", "create_bulk_codes"} /\ ret'.ok) =>
        /\ Range(ret'.codes) \cap DOMAIN codes = {}
        /\ Distinct(ret'.codes)
        /\ Len(ret'.codes) = ret'.n
        /\ Range(ret'.codes) \subseteq DOMAIN codes'
      ]_vars

C16_Witness ==
    /\ ret.op = "create_bulk_codes"
    /\ ret.ok
    /\ Len(ret.codes) = 2
    /\ ret.codes[1] # ret.codes[2]
    /\ Range(ret.codes) \subseteq DOMAIN codes

\* C17: a create_bulk_codes call that returns the empty list leaves the codes
\* table as it was; one that returns a list returns num_codes codes and has
\* added exactly their rows, as unused non-admin codes.
C17_BulkAllOrNothing ==
    [][ret'.op = "create_bulk_codes" =>
        IF ret'.codes = << >>
        THEN codes' = codes
        ELSE /\ Len(ret'.codes) = ret'.n
             /\ DOMAIN codes' = DOMAIN codes \cup Range(ret'.codes)
             /\ \A c \in DOMAIN codes : codes'[c] = codes[c]
             /\ \A c \in Range(ret'.codes) : ~codes'[c].is_admin /\ ~codes'[c].is_used
      ]_vars

\* A batch that failed on a code generated twice: nothing of it is stored.
C17_Witness ==
    /\ ret.op = "create_bulk_codes"
    /\ ~ret.ok
    /\ ret.codes = << >>
    /\ ret.n = 2
    /\ ret.what \in RandomCodes
    /\ ret.what \notin DOMAIN codes

\* C26: every user row names a code that has a row in codes.
C26_ReferentialIntegrity ==
    \A u \in DOMAIN users : users[u].code \in DOMAIN codes

\* C27: each increment_usage call for a username that has a row raises that
\* row's videos_used by exactly one and changes nothing else of either table,
\* whatever other calls run around it; so after k calls the count is k higher
\* than when the row was inserted.
C27_IncrementsAreAtomic ==
    [][ret'.op = "increment_usage" =>
        /\ codes' = codes
        /\ DOMAIN users' = DOMAIN users
        /\ \A u \in DOMAIN users :
            /\ users'[u].code = users[u].code
            /\ users'[u].videos_used = users[u].videos_used + (IF u = ret'.who THEN 1 ELSE 0)
            /\ users'[u].videos_used = consumed'[u]
      ]_vars

C27_Witness ==
    /\ ret.op = "increment_usage"
    /\ ret.who \in DOMAIN users
    /\ consumed[ret.who] = 2
    /\ users[ret.who].videos_used = 2
    /\ \E v \in Clients : vpc[v] # "idle"
    /\ \E u \in DOMAIN users \ {ret.who, ADMIN_USERNAME} : users[u].videos_used = 1

\* C23: a run of init_db on an initialised store leaves every row of codes
\* and users as it was (no is_used, max_videos or videos_used is reset, no row
\* is removed or added), and after it the default admin code is an unlimited
\* (-1) admin code with the default admin username bound to it.
C23_InitDbIdempotent ==
    [][ret'.op = "init_db" =>
        /\ \A c \in DOMAIN codes : c \in DOMAIN codes' /\ codes'[c] = codes[c]
        /\ \A u \in DOMAIN users : u \in DOMAIN users' /\ users'[u] = users[u]
        /\ DOMAIN codes' = DOMAIN codes \cup {ADMIN_CODE}
        /\ DOMAIN users' = DOMAIN users \cup {ADMIN_USERNAME}
        /\ codes'[ADMIN_CODE].max_videos = -1
        /\ codes'[ADMIN_CODE].is_admin
        /\ users'[ADMIN_USERNAME].code = ADMIN_CODE
      ]_vars

C23_Witness ==
    /\ ret.op = "init_db"
    /\ \E c \in DOMAIN codes \ {ADMIN_CODE} : codes[c].is_used
    /\ \E u \in DOMAIN users \ {ADMIN_USERNAME} : users[u].videos_used > 0
    /\ codes[ADMIN_CODE].max_videos = -1
    /\ users[ADMIN_USERNAME].code = ADMIN_CODE

\* C21: a validate_user call by the user bound to a code whose max_videos is
\* negative (the call that registers the user included) is accepted with
\* remaining -1, however many increment_usage calls were made, for admin and
\* non-admin codes alike; and an accepted call reports remaining -1 only for
\* such a code.  Calls overlapped by a bind or an issue are left out.
C21_UnlimitedNeverRejected ==
    (/\ ret.op = "validate_user"
     /\ ret.clean
     /\ ret.who \in DOMAIN users
     /\ ret.what \in DOMAIN codes
     /\ users[ret.who].code = ret.what)
    => /\ (codes[ret.what].max_videos < 0 => (ret.ok /\ ret.n = -1))
       /\ ((ret.ok /\ ret.n = -1) => codes[ret.what].max_videos < 0)

\* C25: the write transaction of a registration either inserts the user row
\* and marks the non-admin code used, or, when it fails (at the INSERT, or
\* between the INSERT and the commit), changes neither table; so in every
\* state a non-admin code with a bound user is marked used.
C25_RegistrationAtomic ==
    [][(\A v \in Clients :
            (Returns(v) /\ vpc[v] = "insert") =>
                (IF ret'.ok
                 THEN /\ vuser[v] \notin DOMAIN users
                      /\ vuser[v] \in DOMAIN users'
                      /\ users'[vuser[v]].code = vcode[v]
                      /\ codes'[vcode[v]].is_used
                 ELSE /\ ret'.msg = "Authentication error"
                      /\ codes' = codes
                      /\ users' = users))
       /\ (\A c \in DOMAIN codes' :
            (~codes'[c].is_admin /\ {u \in DOMAIN users' : users'[u].code = c} # {})
                => codes'[c].is_used)
      ]_vars

\* A call that failed after its INSERT: no user row, the code still unused.
C25_Witness ==
    /\ ret.op = "validate_user"
    /\ ret.msg = "Authentication error"
    /\ ret.who \notin DOMAIN users
    /\ ret.what \in DOMAIN codes
    /\ ~codes[ret.what].is_admin
    /\ ~codes[ret.what].is_used
    /\ BoundUsers(ret.what) = {}

\* C22: every create_code call returns: a call that is inside the loop of
\* generate_unique_code leaves it, with a code or with a failure, also when
\* every string the generator can draw has a row.
C22_GeneratorTerminates ==
    \A v \in Clients : (vpc[v] = "generate") ~> (vpc[v] = "idle")

\* C24: a click on any of the three processing buttons while is_processing is
\* set and the recorded start time is at most 300 seconds old starts no
\* pipeline run and leaves is_processing, processing_start_time and the runs in
\* flight as they were; it is answered with "Already processing a video" (a
\* URL without http(s) scheme with "Please provide a valid URL").
C24_BusyRefusalChangesNothing ==
    [][(/\ is_processing
        /\ processing_start_time # NoTime
        /\ ~Stale
        /\ ret'.who \in EntryPoints)
       => /\ ~ret'.ok
          /\ ret'.msg \in {"Already processing a video", "Please provide a valid URL"}
          /\ (ret'.msg = "Please provide a valid URL" => ret'.op = "process_url")
          /\ rpc' = rpc
          /\ rsrc' = rsrc
          /\ is_processing' = is_processing
          /\ processing_start_time' = processing_start_time
      ]_vars

\* A refusal at exactly 300 seconds, the run still in the pipeline.
C24_Witness ==
    /\ ret.who \in EntryPoints
    /\ ret.msg = "Already processing a video"
    /\ ~ret.ok
    /\ is_processing
    /\ processing_start_time = <<STALE_SECONDS>>
    /\ Cardinality({r \in Runs : rpc[r] = "pipeline"}) = 1

\* C30: a click that is admitted starts a pipeline run on what that click
\* submitted: "Process Video" on the uploaded file, "Process URL" on the URL
\* typed into the text input (so neither on the example's URL nor on the
\* upload), an example button on the example's URL; and "Processing
\* complete!" is displayed only in a step in which a pipeline run ends.
C30_JobRunsSubmittedSource ==
    [][(\A r \in Runs :
            (/\ ret'.op = "process_video"
             /\ ret'.id = r
             /\ ret'.ok
             /\ ret'.who \in EntryPoints)
            => (/\ Admitted(r)
                /\ (ret'.who = "process_upload" => rsrc'[r] = "upload")
                /\ (ret'.who = "process_url" => rsrc'[r] \notin {"upload", ExampleUrl})
                /\ (ret'.who = "process_example" => rsrc'[r] = ExampleUrl)))
       /\ (ret'.msg = "Processing complete!" => \E q \in Runs : Ended(q))
      ]_vars

\* The step is the end of a job that passed admission (the awaited pipeline
\* returned, raised or was torn down, or process_video ran no pipeline at all).
JobExit == (\E r \in Runs : Ended(r)) \/ (ret'.op = "process_video" /\ ret'.msg = "Processing complete!")

\* C28: an entry of the working directory disappears only if it is a
\* directory named temp_* or output_* whose modification time is more than
\* 3600 seconds old; and every exit of a job, whatever its outcome, removes
\* each such directory.
C28_SweepRemovesOnlyOldTempDirs ==
    [][(\A n \in DOMAIN disk :
            (n \notin DOMAIN disk') => (Matches(n) /\ disk[n].dir /\ disk[n].age > SWEEP_SECONDS))
       /\ (JobExit =>
            (\A n \in DOMAIN disk :
                (Matches(n) /\ disk[n].dir /\ disk[n].age > SWEEP_SECONDS) => (n \notin DOMAIN disk')))
      ]_vars

\* A job torn down by a BaseException has swept one directory and kept a
\* directory that is exactly 3600 seconds old.
C28_Witness ==
    /\ ret.op = "process_video"
    /\ ret.who = "await"
    /\ ret.msg = "fault"
    /\ ret.n = 1
    /\ \E n \in DOMAIN disk : Matches(n) /\ disk[n].dir /\ disk[n].age = SWEEP_SECONDS
    /\ \E n \in DOMAIN disk : ~Matches(n) /\ disk[n].dir /\ disk[n].age > SWEEP_SECONDS

\* C29: the end of a run that is not the one admitted last (a job that was
\* reset as stale and has been replaced by a newer job still in the pipeline)
\* leaves is_processing and processing_start_time as they were.
C29_StaleCompletionKeepsNewJob ==
    [][\A r \in Runs :
        (Ended(r) /\ owner # 0 /\ owner # r /\ rpc[owner] = "pipeline")
            => (is_processing' = is_processing /\ processing_start_time' = processing_start_time)
      ]_vars

\* A step of the validate_user call of client v.
ValidateStep(v) == vpc'[v] # vpc[v] \/ (ret'.op = "validate_user" /\ ret'.id = v)

\* C31: every step of a validate_user call leaves codes and users as they
\* were, except the step that returns "Welcome new user!": that one adds
\* exactly the row (username, code, 0) to users, changes no other user row,
\* and changes nothing of codes but is_used of the presented code, which it
\* sets for a non-admin code and leaves alone for an admin code (the last two
\* for calls not overlapped by a bind, issue or delete).
C31_OnlyRegistrationWrites ==
    [][\A v \in Clients :
        ValidateStep(v) =>
            (IF ret'.msg = "Welcome new user!"
             THEN LET u == ret'.who
                      c == ret'.what
                  IN  /\ u \notin DOMAIN users
                      /\ DOMAIN users' = DOMAIN users \cup {u}
                      /\ users'[u] = [code |-> c, videos_used |-> 0]
                      /\ \A w \in DOMAIN users : users'[w] = users[w]
                      /\ DOMAIN codes' = DOMAIN codes
                      /\ \A d \in DOMAIN codes \ {c} : codes'[d] = codes[d]
                      /\ (c \in DOMAIN codes =>
                            /\ codes'[c] \in {codes[c], [codes[c] EXCEPT !.is_used = TRUE]}
                            /\ ((ret'.clean /\ codes[c].is_admin) => codes'[c] = codes[c])
                            /\ ((ret'.clean /\ ~codes[c].is_admin) => codes'[c].is_used))
             ELSE codes' = codes /\ users' = users)
      ]_vars

\* A registration with a non-admin code next to a user with a count of its
\* own, and a rejected call on a store with a used code.
C31_Witness ==
    /\ ret.op = "validate_user"
    /\ \/ /\ ret.msg = "Welcome new user!"
          /\ ret.what \in DOMAIN codes
          /\ ~codes[ret.what].is_admin
          /\ codes[ret.what].is_used
          /\ \E w \in DOMAIN users \ {ret.who, ADMIN_USERNAME} : users[w].videos_used > 0
       \/ /\ ret.msg = "Video limit exceeded"
          /\ ret.who \in DOMAIN users
          /\ users[ret.who].videos_used = MaxVideos

\* C32: download_from_url returns the file the acquire step has written
\* whenever execute_step succeeded, and raises only when execute_step failed.
C32_DownloadReturnsAcquiredFile ==
    ret.op = "download_from_url" =>
        /\ (ret.n = 1 => (ret.ok /\ download.result = download.acquired))
        /\ (ret.n = 0 => (~ret.ok /\ ret.msg = "Failed to download video"))
====
